---- MODULE Spec2Model ----
(***************************************************************************)
(* Shortly: the in-memory short-link store (src/shortly/shorten.py,        *)
(* database.py, utils.py) as a state machine.                              *)
(*                                                                         *)
(* Spec       : the three functions of shorten.py called one after another *)
(*              (each call is one atomic step), with a clock that ticks.   *)
(* ThreadSpec : get_original_url run by several threads at once, one step  *)
(*              per dict access (FastAPI runs the plain-def handlers of    *)
(*              routes.py in a thread pool; the stores have no lock).      *)
(***************************************************************************)
EXTENDS Integers, Sequences, FiniteSets, TLC

----------------------------------------------------------------------------
(* Bounds of the model. *)

\* The clock runs from 0 to MaxTime (seconds).
MaxTime == 2

\* A click counter is not driven beyond MaxClicks.
MaxClicks == 2

\* The threads of ThreadSpec; each runs one call.
NumThreads == 2

\* The strings generate_short_id can return: two of the 62^6 ids.
ShortIds == {"abc123", "xyz789"}

\* The texts of the URLs that are shortened.
UrlTexts == {"https://a.example/", "https://b.example/"}

\* The texts of the URLs that arrive as a validated payload (an HttpUrl).
PayloadTexts == {"https://a.example/"}

\* The ttl arguments tried: shorten_url takes any int, none is rejected.
TTLs == {-1, 0, 1}

----------------------------------------------------------------------------
(* Python values. A value carries its type: a str and a pydantic HttpUrl   *)
(* with the same text are different objects.                               *)

PyNone == [type |-> "NoneType"]

PyStr(text) == [type |-> "str", text |-> text]

HttpUrl(text) == [type |-> "HttpUrl", text |-> text]

\* What callers pass as `url`: a str (tests/test_shorten.py) or the HttpUrl
\* of the validated payload (routes.py, shorten_url_handler).
Targets == {PyStr(x) : x \in UrlTexts} \cup {HttpUrl(x) : x \in PayloadTexts}

\* str(url): the text of the value, as a str.
str(v) == PyStr(v.text)

\* stored_url == url: a str equals a str with the same text; a str never
\* equals an HttpUrl object (pydantic's Url compares with Url only).
PyEq(a, b) == a.type = b.type /\ a.text = b.text

----------------------------------------------------------------------------
(* A Python dict: its items in insertion order.                            *)

Keys(d) == {d[i].key : i \in DOMAIN d}

\* d[k], for k in d
GetItem(d, k) == d[CHOOSE i \in DOMAIN d : d[i].key = k].value

\* d.get(k, default)
Get(d, k, default) == IF k \in Keys(d) THEN GetItem(d, k) ELSE default

\* d[k] = v: a known key keeps its place, a new key goes last
SetItem(d, k, v) ==
    IF k \in Keys(d)
    THEN [i \in DOMAIN d |->
            IF d[i].key = k THEN [key |-> k, value |-> v] ELSE d[i]]
    ELSE Append(d, [key |-> k, value |-> v])

\* del d[k], for k in d
DelItem(d, k) == SelectSeq(d, LAMBDA e : e.key # k)

----------------------------------------------------------------------------
VARIABLES
    url_store,          \* database.py: short id -> original URL (a str)
    expiration_store,   \* database.py: short id -> expiration time
    click_count_store,  \* database.py: short id -> click count
    now,                \* datetime.now(), in seconds
    call,               \* the last call of shorten.py (or of the presence
                        \* check of routes.py) that returned: its
                        \* arguments, the time it ran at, its result and
                        \* the line it left by
    run,                \* observer: the get_original_url calls on one live
                        \* id made in a row since any other call
    purged,             \* observer: the ids a get_original_url has purged
    pc,                 \* ThreadSpec: the line each thread is about to run
    frame,              \* ThreadSpec: each thread's locals and its outcome
    response,           \* routes.py: the answer to the last request
    health,             \* health.py: the patched route simulation, the
                        \* uptime clock and the last result
    config,             \* main.py: the environment, the command line and
                        \* what main passed to uvicorn.run
    mw                  \* logging.py: the request in the middleware

stores == <<url_store, expiration_store, click_count_store>>

threads == <<pc, frame>>

observers == <<call, run, purged>>

services == <<health, config, mw>>

vars == <<url_store, expiration_store, click_count_store, now, call, run,
          purged, pc, frame, response, health, config, mw>>

Threads == 1..NumThreads

NoCall == [op |-> "none", at |-> 0, line |-> 0]

NoRun == [short_id |-> "", n |-> 0, base |-> 0]

\* url, ttl, keys, i and expiration are the locals of shorten_url; counted
\* tells that the thread has written the counter at line 83.
NoFrame == [short_id |-> "", count |-> 0, ret |-> PyNone, raised |-> "",
            line |-> 0, url |-> PyNone, ttl |-> 0, keys |-> <<>>, i |-> 0,
            expiration |-> 0, counted |-> FALSE]

\* status 0: no request answered yet. calls lists the functions of
\* shorten.py the handler called.
NoResponse == [handler |-> "none", short_id |-> "", status |-> 0,
               calls |-> <<>>]

\* The value of health, config and mw where the module is not running.
NotRunning == [pc |-> "not running"]

Init ==
    /\ url_store = <<>>
    /\ expiration_store = <<>>
    /\ click_count_store = <<>>
    /\ now = 0
    /\ call = NoCall
    /\ run = NoRun
    /\ purged = {}
    /\ pc = [t \in Threads |-> "idle"]
    /\ frame = [t \in Threads |-> NoFrame]
    /\ response = NoResponse
    /\ health = NotRunning
    /\ config = NotRunning
    /\ mw = NotRunning

----------------------------------------------------------------------------
(* utils.py *)

\* generate_short_id(): random.choices draws any string of the alphabet;
\* nothing is checked against the stores.
generate_short_id == ShortIds

----------------------------------------------------------------------------
(* shorten.py, one call as one step *)

\* The positions of url_store whose stored URL equals `url` (line 39).
Matches(url) == {i \in DOMAIN url_store : PyEq(url_store[i].value, url)}

\* The scan of lines 38-41 returns at the first match in dict order.
FirstMatch(url) == CHOOSE i \in Matches(url) : \A j \in Matches(url) : i <= j

\* (variant of expiration_time: the ttl left out)
expiration_time_no_ttl(ttl) == now

\* line 45: datetime.now() + timedelta(seconds=ttl)
expiration_time(ttl) == now + ttl

\* (variant of IsExpired: the comparison the wrong way round)
IsExpired_reversed(short_id) == now < GetItem(expiration_store, short_id)

\* (variant of IsExpired: expired from the expiration time on)
IsExpired_inclusive(short_id) == now >= GetItem(expiration_store, short_id)

\* line 74: datetime.now() > expiration_store[short_id]
IsExpired(short_id) == now > GetItem(expiration_store, short_id)

\* line 69: short_id not in url_store or short_id not in expiration_store
NotFound(short_id) ==
    short_id \notin Keys(url_store) \/ short_id \notin Keys(expiration_store)

\* (variant of Incremented: a click counted twice)
Incremented_twice(count) == count + 2

\* line 83: click_count_store[short_id] += 1
Incremented(count) == count + 1

shorten_url(url, ttl) ==
    IF Matches(url) # {}
    THEN /\ call' = [op |-> "shorten_url", url |-> url, ttl |-> ttl,
                     at |-> now, ret |-> url_store[FirstMatch(url)].key,
                     raised |-> "", line |-> 41]
         /\ UNCHANGED <<stores, now>>
    ELSE \E short_id \in generate_short_id :
         /\ url_store' = SetItem(url_store, short_id, str(url))
         /\ expiration_store' =
                SetItem(expiration_store, short_id, expiration_time(ttl))
         /\ click_count_store' = SetItem(click_count_store, short_id, 0)
         /\ call' = [op |-> "shorten_url", url |-> url, ttl |-> ttl,
                     at |-> now, ret |-> short_id,
                     raised |-> "", line |-> 52]
         /\ UNCHANGED now

get_original_url(short_id) ==
    IF NotFound(short_id)
    THEN /\ call' = [op |-> "get_original_url", short_id |-> short_id,
                     at |-> now, ret |-> PyNone, raised |-> "", line |-> 71]
         /\ UNCHANGED <<stores, now>>
    ELSE IF IsExpired(short_id)
    THEN /\ url_store' = DelItem(url_store, short_id)
         /\ expiration_store' = DelItem(expiration_store, short_id)
         /\ IF short_id \in Keys(click_count_store)
            THEN /\ click_count_store' = DelItem(click_count_store, short_id)
                 /\ call' = [op |-> "get_original_url", short_id |-> short_id,
                             at |-> now, ret |-> PyNone, raised |-> "",
                             line |-> 79]
            ELSE \* del of a missing key raises, after the first two dels
                 /\ UNCHANGED click_count_store
                 /\ call' = [op |-> "get_original_url", short_id |-> short_id,
                             at |-> now, ret |-> PyNone,
                             raised |-> "KeyError", line |-> 78]
         /\ UNCHANGED now
    ELSE /\ click_count_store' =
                IF short_id \in Keys(click_count_store)
                THEN SetItem(click_count_store, short_id,
                        Incremented(GetItem(click_count_store, short_id)))
                ELSE click_count_store
         /\ call' = [op |-> "get_original_url", short_id |-> short_id,
                     at |-> now, ret |-> GetItem(url_store, short_id),
                     raised |-> "", line |-> 87]
         /\ UNCHANGED <<url_store, expiration_store, now>>

\* (variant of get_click_count: click_count_store.setdefault(short_id, 0)
\* in place of click_count_store.get(short_id, 0))
get_click_count_setdefault(short_id) ==
    /\ click_count_store' =
            IF short_id \in Keys(click_count_store)
            THEN click_count_store
            ELSE SetItem(click_count_store, short_id, 0)
    /\ call' = [op |-> "get_click_count", short_id |-> short_id,
                at |-> now, ret |-> Get(click_count_store, short_id, 0),
                raised |-> "", line |-> 103]
    /\ UNCHANGED <<url_store, expiration_store, now>>

\* (variant of get_click_count: click_count_store[short_id] in place of
\* click_count_store.get(short_id, 0))
get_click_count_subscript(short_id) ==
    /\ call' = IF short_id \in Keys(click_count_store)
               THEN [op |-> "get_click_count", short_id |-> short_id,
                     at |-> now, ret |-> GetItem(click_count_store, short_id),
                     raised |-> "", line |-> 103]
               ELSE [op |-> "get_click_count", short_id |-> short_id,
                     at |-> now, ret |-> PyNone,
                     raised |-> "KeyError", line |-> 101]
    /\ UNCHANGED <<stores, now>>

\* (variant of get_click_count: 0 for an id whose expiration time has passed)
get_click_count_unexpired(short_id) ==
    /\ call' = [op |-> "get_click_count", short_id |-> short_id,
                at |-> now,
                ret |-> IF now > Get(expiration_store, short_id, now)
                        THEN 0
                        ELSE Get(click_count_store, short_id, 0),
                raised |-> "", line |-> 103]
    /\ UNCHANGED <<stores, now>>

get_click_count(short_id) ==
    /\ call' = [op |-> "get_click_count", short_id |-> short_id,
                at |-> now, ret |-> Get(click_count_store, short_id, 0),
                raised |-> "", line |-> 103]
    /\ UNCHANGED <<stores, now>>

----------------------------------------------------------------------------
(* routes.py, the presence check *)

\* (variant of validate_short_id_raises: an id whose expiration time has
\* passed counts as not found)
validate_short_id_raises_expired(short_id) ==
    \/ short_id \notin Keys(url_store)
    \/ now > Get(expiration_store, short_id, now)

\* line 51: short_id not in url_store
validate_short_id_raises(short_id) == short_id \notin Keys(url_store)

\* validate_short_id raises HTTPException(404) at line 53 or falls off its
\* end (line 51, the test that failed) returning None.
validate_short_id(short_id) ==
    /\ call' = IF validate_short_id_raises(short_id)
               THEN [op |-> "validate_short_id", short_id |-> short_id,
                     at |-> now, ret |-> PyNone,
                     raised |-> "HTTPException", line |-> 53]
               ELSE [op |-> "validate_short_id", short_id |-> short_id,
                     at |-> now, ret |-> PyNone, raised |-> "", line |-> 51]
    /\ UNCHANGED <<stores, now>>

----------------------------------------------------------------------------
(* Vocabulary of the properties, in the words of the specification.        *)

\* short_id is a key of all three maps / of none of them.
InStore(short_id) ==
    /\ short_id \in Keys(url_store)
    /\ short_id \in Keys(expiration_store)
    /\ short_id \in Keys(click_count_store)

Absent(short_id) ==
    /\ short_id \notin Keys(url_store)
    /\ short_id \notin Keys(expiration_store)
    /\ short_id \notin Keys(click_count_store)

\* The entry of short_id is in the store and its expiry has not passed.
LiveEntry(short_id) ==
    InStore(short_id) /\ now <= GetItem(expiration_store, short_id)

\* The step is a call of `op` that returned (time stands still in a call).
Returned(op) == now' = now /\ call'.op = op

----------------------------------------------------------------------------
(* The callers: the operations of the store, called one after another.     *)

Create(url, ttl) ==
    /\ shorten_url(url, ttl)
    /\ run' = NoRun
    /\ UNCHANGED <<purged, threads, response, services>>

Resolve(short_id) ==
    /\ LiveEntry(short_id) => GetItem(click_count_store, short_id) < MaxClicks
    /\ get_original_url(short_id)
    /\ run' = IF ~LiveEntry(short_id) THEN NoRun
              ELSE IF run.n > 0 /\ run.short_id = short_id
                   THEN [run EXCEPT !.n = @ + 1]
                   ELSE [short_id |-> short_id, n |-> 1,
                         base |-> GetItem(click_count_store, short_id)]
    /\ purged' = IF call'.line = 79 THEN purged \cup {short_id} ELSE purged
    /\ UNCHANGED <<threads, response, services>>

ClickCount(short_id) ==
    /\ get_click_count(short_id)
    /\ run' = NoRun
    /\ UNCHANGED <<purged, threads, response, services>>

Exists(short_id) ==
    /\ validate_short_id(short_id)
    /\ run' = NoRun
    /\ UNCHANGED <<purged, threads, response, services>>

\* Time passes between calls.
Tick ==
    /\ now < MaxTime
    /\ now' = now + 1
    /\ UNCHANGED <<stores, call, run, purged, threads, response, services>>

Next ==
    \/ \E url \in Targets, ttl \in TTLs : Create(url, ttl)
    \/ \E short_id \in ShortIds : Resolve(short_id)
    \/ \E short_id \in ShortIds : ClickCount(short_id)
    \/ \E short_id \in ShortIds : Exists(short_id)
    \/ Tick

Spec == Init /\ [][Next]_vars

----------------------------------------------------------------------------
(* shorten.py, get_original_url run by concurrent threads: one step per    *)
(* access to a store. A thread can be switched out between any two steps,  *)
(* the read and the write of line 83 included.                             *)

Goto(t, label) ==
    /\ pc' = [pc EXCEPT ![t] = label]
    /\ UNCHANGED frame

Return(t, value, line) ==
    /\ pc' = [pc EXCEPT ![t] = "done"]
    /\ frame' = [frame EXCEPT ![t].ret = value, ![t].line = line]

Raise(t, exception, line) ==
    /\ pc' = [pc EXCEPT ![t] = "done"]
    /\ frame' = [frame EXCEPT ![t].raised = exception, ![t].line = line]

\* A request thread enters get_original_url(short_id).
Enter(t, short_id) ==
    /\ pc[t] = "idle"
    /\ pc' = [pc EXCEPT ![t] = "69a"]
    /\ frame' = [frame EXCEPT ![t] = [NoFrame EXCEPT !.short_id = short_id]]
    /\ UNCHANGED <<stores, now, observers, response,
                 services>>

\* line 69, left operand: short_id not in url_store
L69a(t) ==
    /\ pc[t] = "69a"
    /\ IF frame[t].short_id \notin Keys(url_store)
       THEN Return(t, PyNone, 71)
       ELSE Goto(t, "69b")
    /\ UNCHANGED <<stores, now, observers, response,
                 services>>

\* line 69, right operand: short_id not in expiration_store
L69b(t) ==
    /\ pc[t] = "69b"
    /\ IF frame[t].short_id \notin Keys(expiration_store)
       THEN Return(t, PyNone, 71)
       ELSE Goto(t, "74")
    /\ UNCHANGED <<stores, now, observers, response,
                 services>>

\* line 74: datetime.now() > expiration_store[short_id]
L74(t) ==
    /\ pc[t] = "74"
    /\ IF frame[t].short_id \notin Keys(expiration_store)
       THEN Raise(t, "KeyError", 74)
       ELSE IF IsExpired(frame[t].short_id)
            THEN Goto(t, "76")
            ELSE Goto(t, "82")
    /\ UNCHANGED <<stores, now, observers, response,
                 services>>

\* line 76: del url_store[short_id]
L76(t) ==
    /\ pc[t] = "76"
    /\ IF frame[t].short_id \notin Keys(url_store)
       THEN Raise(t, "KeyError", 76) /\ UNCHANGED url_store
       ELSE /\ url_store' = DelItem(url_store, frame[t].short_id)
            /\ Goto(t, "77")
    /\ UNCHANGED <<expiration_store, click_count_store, now, observers, response,
                 services>>

\* line 77: del expiration_store[short_id]
L77(t) ==
    /\ pc[t] = "77"
    /\ IF frame[t].short_id \notin Keys(expiration_store)
       THEN Raise(t, "KeyError", 77) /\ UNCHANGED expiration_store
       ELSE /\ expiration_store' =
                    DelItem(expiration_store, frame[t].short_id)
            /\ Goto(t, "78")
    /\ UNCHANGED <<url_store, click_count_store, now, observers, response,
                 services>>

\* lines 78-79: del click_count_store[short_id]; return None
L78(t) ==
    /\ pc[t] = "78"
    /\ IF frame[t].short_id \notin Keys(click_count_store)
       THEN Raise(t, "KeyError", 78) /\ UNCHANGED click_count_store
       ELSE /\ click_count_store' =
                    DelItem(click_count_store, frame[t].short_id)
            /\ Return(t, PyNone, 79)
    /\ UNCHANGED <<url_store, expiration_store, now, observers, response,
                 services>>

\* line 82: if short_id in click_count_store
L82(t) ==
    /\ pc[t] = "82"
    /\ IF frame[t].short_id \in Keys(click_count_store)
       THEN Goto(t, "83load")
       ELSE Goto(t, "86")
    /\ UNCHANGED <<stores, now, observers, response,
                 services>>

\* line 83, the read of click_count_store[short_id] += 1
L83load(t) ==
    /\ pc[t] = "83load"
    /\ IF frame[t].short_id \notin Keys(click_count_store)
       THEN Raise(t, "KeyError", 83)
       ELSE /\ pc' = [pc EXCEPT ![t] = "83store"]
            /\ frame' = [frame EXCEPT ![t].count =
                    GetItem(click_count_store, frame[t].short_id)]
    /\ UNCHANGED <<stores, now, observers, response,
                 services>>

\* line 83, the write of click_count_store[short_id] += 1
L83store(t) ==
    /\ pc[t] = "83store"
    /\ click_count_store' = SetItem(click_count_store, frame[t].short_id,
                                    Incremented(frame[t].count))
    /\ pc' = [pc EXCEPT ![t] = "86"]
    /\ frame' = [frame EXCEPT ![t].counted = TRUE]
    /\ UNCHANGED <<url_store, expiration_store, now, observers, response,
                 services>>

\* lines 85-86: logger.debug(..., url_store[short_id])
L86(t) ==
    /\ pc[t] = "86"
    /\ IF frame[t].short_id \notin Keys(url_store)
       THEN Raise(t, "KeyError", 86)
       ELSE Goto(t, "87")
    /\ UNCHANGED <<stores, now, observers, response,
                 services>>

\* line 87: return url_store[short_id]
L87(t) ==
    /\ pc[t] = "87"
    /\ IF frame[t].short_id \notin Keys(url_store)
       THEN Raise(t, "KeyError", 87)
       ELSE Return(t, GetItem(url_store, frame[t].short_id), 87)
    /\ UNCHANGED <<stores, now, observers, response,
                 services>>

\* The store the threads start on: the one a first shorten_url(url, ttl),
\* called at time 0, leaves behind.
ThreadInit ==
    \E url \in Targets, ttl \in TTLs, short_id \in generate_short_id :
        /\ now = 0
        /\ url_store = SetItem(<<>>, short_id, str(url))
        /\ expiration_store = SetItem(<<>>, short_id, expiration_time(ttl))
        /\ click_count_store = SetItem(<<>>, short_id, 0)
        /\ call = [op |-> "shorten_url", url |-> url, ttl |-> ttl,
                   at |-> 0, ret |-> short_id, raised |-> "", line |-> 52]
        /\ run = NoRun
        /\ purged = {}
        /\ pc = [t \in Threads |-> "idle"]
        /\ frame = [t \in Threads |-> NoFrame]
        /\ response = NoResponse
        /\ health = NotRunning
        /\ config = NotRunning
        /\ mw = NotRunning

ThreadStep(t) ==
    \/ \E short_id \in ShortIds : Enter(t, short_id)
    \/ L69a(t)
    \/ L69b(t)
    \/ L74(t)
    \/ L76(t)
    \/ L77(t)
    \/ L78(t)
    \/ L82(t)
    \/ L83load(t)
    \/ L83store(t)
    \/ L86(t)
    \/ L87(t)

ThreadNext ==
    \/ \E t \in Threads : ThreadStep(t)
    \/ Tick

ThreadSpec == ThreadInit /\ [][ThreadNext]_vars

----------------------------------------------------------------------------
(* shorten.py, shorten_url run by a thread next to the threads above: one  *)
(* step per access to a store or to the clock.                             *)

\* The keys of a dict in insertion order.
KeySeq(d) == [i \in DOMAIN d |-> d[i].key]

\* A request thread enters shorten_url(url, ttl) and line 38 makes the
\* iterator of url_store.items(), which remembers the dict as it is now.
EnterShorten(t, url, ttl) ==
    /\ pc[t] = "idle"
    /\ pc' = [pc EXCEPT ![t] = "38"]
    /\ frame' = [frame EXCEPT ![t] =
            [NoFrame EXCEPT !.url = url, !.ttl = ttl,
                            !.keys = KeySeq(url_store), !.i = 1]]
    /\ UNCHANGED <<stores, now, observers, response, services>>

\* lines 38-41, one turn of the loop: the iterator raises RuntimeError when
\* the dict has changed size; at its end the loop is left for line 44; the
\* item it yields is compared with url (line 39) and a match is returned
\* (line 41).
L38next(t) ==
    /\ pc[t] = "38"
    /\ Len(url_store) = Len(frame[t].keys)
    /\ IF frame[t].i > Len(url_store)
       THEN Goto(t, "44")
       ELSE IF PyEq(url_store[frame[t].i].value, frame[t].url)
            THEN /\ pc' = [pc EXCEPT ![t] = "done"]
                 /\ frame' = [frame EXCEPT
                        ![t].short_id = url_store[frame[t].i].key,
                        ![t].ret = PyStr(url_store[frame[t].i].key),
                        ![t].line = 41]
            ELSE /\ pc' = pc
                 /\ frame' = [frame EXCEPT ![t].i = @ + 1]
    /\ UNCHANGED <<stores, now, observers, response, services>>

\* line 38, the dict changed under the iterator. A change of size raises
\* RuntimeError. With the size kept and the keys changed (a del and an
\* insertion by other threads) what the iterator does depends on the
\* layout of the dict: it raises RuntimeError, or goes on as L38next.
L38changed(t) ==
    /\ pc[t] = "38"
    /\ KeySeq(url_store) # frame[t].keys
    /\ Raise(t, "RuntimeError", 38)
    /\ UNCHANGED <<stores, now, observers, response, services>>

\* lines 44-45: short_id = generate_short_id();
\* expiration_time = datetime.now() + timedelta(seconds=ttl)
L44(t) ==
    /\ pc[t] = "44"
    /\ \E short_id \in generate_short_id :
        /\ pc' = [pc EXCEPT ![t] = "46"]
        /\ frame' = [frame EXCEPT
                ![t].short_id = short_id,
                ![t].expiration = expiration_time(frame[t].ttl)]
    /\ UNCHANGED <<stores, now, observers, response, services>>

\* line 46: url_store[short_id] = str(url)
L46(t) ==
    /\ pc[t] = "46"
    /\ url_store' = SetItem(url_store, frame[t].short_id, str(frame[t].url))
    /\ Goto(t, "47")
    /\ UNCHANGED <<expiration_store, click_count_store, now, observers,
                   response, services>>

\* line 47: expiration_store[short_id] = expiration_time
L47(t) ==
    /\ pc[t] = "47"
    /\ expiration_store' =
            SetItem(expiration_store, frame[t].short_id, frame[t].expiration)
    /\ Goto(t, "48")
    /\ UNCHANGED <<url_store, click_count_store, now, observers, response,
                   services>>

\* lines 48-52: click_count_store[short_id] = 0; return short_id
L48(t) ==
    /\ pc[t] = "48"
    /\ click_count_store' = SetItem(click_count_store, frame[t].short_id, 0)
    /\ Return(t, PyStr(frame[t].short_id), 52)
    /\ UNCHANGED <<url_store, expiration_store, now, observers, response,
                   services>>

ShortenStep(t) ==
    \/ \E url \in Targets, ttl \in TTLs : EnterShorten(t, url, ttl)
    \/ L38next(t)
    \/ L38changed(t)
    \/ L44(t)
    \/ L46(t)
    \/ L47(t)
    \/ L48(t)

ConcurrentNext ==
    \/ \E t \in Threads : ThreadStep(t)
    \/ \E t \in Threads : ShortenStep(t)
    \/ Tick

ConcurrentSpec == ThreadInit /\ [][ConcurrentNext]_vars

----------------------------------------------------------------------------
(* routes.py, the handlers of the store, one request after another *)

\* shorten.py:24, the ttl of a shorten_url called without one
DefaultTtl == 3600

\* line 53: HTTPException(status_code=404, detail="Short ID not found")
NotFoundResponse(handler, short_id) ==
    [handler |-> handler, short_id |-> short_id, status |-> 404,
     detail |-> "Short ID not found", calls |-> <<>>]

\* What FastAPI answers when the handler raises or when its return value
\* fails the response_model: the exception handler main.py registers for
\* Exception (logging.py:86-104) answers 500.
ErrorResponse(handler, short_id, calls) ==
    [handler |-> handler, short_id |-> short_id, status |-> 500,
     detail |-> "Internal Server Error", calls |-> calls]

\* lines 92-102: POST /shorten
shorten_url_handler(url) ==
    /\ shorten_url(url, DefaultTtl)
    /\ response' =
            IF call'.raised # ""
            THEN ErrorResponse("shorten_url_handler", "", <<"shorten_url">>)
            ELSE [handler |-> "shorten_url_handler", short_id |-> call'.ret,
                  status |-> 200, body |-> [short_url |-> "/" \o call'.ret],
                  calls |-> <<"shorten_url">>]
    /\ UNCHANGED <<run, purged, threads, services>>

\* lines 104-113: GET /{short_id}, response_model=str
redirect_url_handler(short_id) ==
    /\ IF validate_short_id_raises(short_id)
       THEN /\ response' = NotFoundResponse("redirect_url_handler", short_id)
            /\ UNCHANGED <<stores, now, call>>
       ELSE /\ get_original_url(short_id)
            /\ response' =
                    IF call'.raised # "" \/ call'.ret = PyNone
                    THEN ErrorResponse("redirect_url_handler", short_id,
                                       <<"get_original_url">>)
                    ELSE [handler |-> "redirect_url_handler",
                          short_id |-> short_id, status |-> 200,
                          body |-> call'.ret,
                          calls |-> <<"get_original_url">>]
    /\ UNCHANGED <<run, purged, threads, services>>

\* lines 115-132: GET /{short_id}/analytics
analytics_handler(short_id) ==
    /\ IF validate_short_id_raises(short_id)
       THEN /\ response' = NotFoundResponse("analytics_handler", short_id)
            /\ UNCHANGED <<stores, now, call>>
       ELSE /\ get_click_count(short_id)
            /\ response' =
                    IF call'.raised # ""
                    THEN ErrorResponse("analytics_handler", short_id,
                                       <<"get_click_count">>)
                    ELSE [handler |-> "analytics_handler",
                          short_id |-> short_id, status |-> 200,
                          body |-> [short_id |-> short_id,
                                    click_count |-> call'.ret],
                          calls |-> <<"get_click_count">>]
    /\ UNCHANGED <<run, purged, threads, services>>

\* lines 134-148: GET /{short_id}/qr. qrcode.make encodes str(data), so
\* the image of None is the image of the text "None".
generate_qr_code_handler(short_id) ==
    /\ IF validate_short_id_raises(short_id)
       THEN /\ response' =
                    NotFoundResponse("generate_qr_code_handler", short_id)
            /\ UNCHANGED <<stores, now, call>>
       ELSE /\ get_original_url(short_id)
            /\ response' =
                    IF call'.raised # ""
                    THEN ErrorResponse("generate_qr_code_handler", short_id,
                                       <<"get_original_url">>)
                    ELSE [handler |-> "generate_qr_code_handler",
                          short_id |-> short_id, status |-> 200,
                          media_type |-> "image/png",
                          body |-> IF call'.ret = PyNone
                                   THEN "None"
                                   ELSE call'.ret.text,
                          calls |-> <<"get_original_url">>]
    /\ UNCHANGED <<run, purged, threads, services>>

\* The requests, answered one after another.
Shorten(url) == shorten_url_handler(url)

Redirect(short_id) ==
    /\ LiveEntry(short_id) => GetItem(click_count_store, short_id) < MaxClicks
    /\ redirect_url_handler(short_id)

Analytics(short_id) == analytics_handler(short_id)

QrCode(short_id) ==
    /\ LiveEntry(short_id) => GetItem(click_count_store, short_id) < MaxClicks
    /\ generate_qr_code_handler(short_id)

\* Time passes between requests, a ttl at a time.
Wait ==
    /\ now < MaxTime * DefaultTtl
    /\ now' = now + DefaultTtl
    /\ UNCHANGED <<stores, call, run, purged, threads, response, services>>

RouteNext ==
    \/ \E text \in PayloadTexts : Shorten(HttpUrl(text))
    \/ \E short_id \in ShortIds : Redirect(short_id)
    \/ \E short_id \in ShortIds : Analytics(short_id)
    \/ \E short_id \in ShortIds : QrCode(short_id)
    \/ Wait

RouteSpec == Init /\ [][RouteNext]_vars

\* The step is a request that `handler` answered.
Handled(handler) == now' = now /\ response'.handler = handler

----------------------------------------------------------------------------
(* health.py *)

\* The store, the threads and the routes at rest, for the specifications of
\* the modules that do not touch them.
AtRest ==
    /\ url_store = <<>>
    /\ expiration_store = <<>>
    /\ click_count_store = <<>>
    /\ now = 0
    /\ call = NoCall
    /\ run = NoRun
    /\ purged = {}
    /\ pc = [t \in Threads |-> "idle"]
    /\ frame = [t \in Threads |-> NoFrame]
    /\ response = NoResponse

\* line 37
essential_routes == <<"/shorten", "/health">>

\* What a call of a function gives: True, False, or an exception raised.
Outcomes == {"True", "False", "Exception"}

\* The functions a test puts in the place of simulate_route_response
\* (unittest.mock.patch with return_value or side_effect).
Mocks == [{"/shorten", "/health"} -> Outcomes]

\* lines 49-64
simulate_route_response(route) ==
    IF route \in {"/shorten", "/health"} THEN "True" ELSE "False"

\* The name simulate_route_response as line 39 looks it up: the function of
\* lines 49-64, or the mock that patches it.
Simulated(route) ==
    IF health.patched THEN health.mock[route]
    ELSE simulate_route_response(route)

\* lines 38-43, the loop from its i-th route on
RECURSIVE RouteLoop(_)
RouteLoop(i) ==
    IF i > Len(essential_routes)
    THEN [ret |-> "up", raised |-> ""]
    ELSE IF Simulated(essential_routes[i]) = "Exception"
         THEN [ret |-> "", raised |-> "Exception"]
         ELSE IF Simulated(essential_routes[i]) = "False"
              THEN [ret |-> "down", raised |-> ""]
              ELSE RouteLoop(i + 1)

\* (variant of ExceptDown: no except clause, the exception goes on)
ExceptDown_reraise(outcome) == outcome

\* lines 44-46: except Exception: return "down"
ExceptDown(outcome) ==
    IF outcome.raised = "Exception"
    THEN [ret |-> "down", raised |-> ""]
    ELSE outcome

\* lines 28-46
check_essential_routes == ExceptDown(RouteLoop(1))

\* line 25: start_time = datetime.now(), at the import
start_time == 0

\* line 78: str(datetime.now() - start_time)
Uptime == [type |-> "str", timedelta |-> now - start_time]

\* lines 67-89
check_health ==
    LET route_status == check_essential_routes
    IN  IF route_status.raised # ""
        THEN route_status
        ELSE [ret |-> [status |-> IF route_status.ret = "up"
                                  THEN "healthy" ELSE "unhealthy",
                       uptime |-> Uptime,
                       components |-> [routes |-> route_status.ret]],
              raised |-> ""]

\* lines 92-105
get_health_status ==
    LET route_status == check_essential_routes
    IN  IF route_status.raised # ""
        THEN route_status
        ELSE [ret |-> IF route_status.ret = "up"
                      THEN "healthy" ELSE "unhealthy",
              raised |-> ""]

NoResult == [op |-> "none"]

Unpatched == [r \in {"/shorten", "/health"} |-> "True"]

HealthInit ==
    /\ AtRest
    /\ health = [patched |-> FALSE, mock |-> Unpatched, result |-> NoResult]
    /\ config = NotRunning
    /\ mw = NotRunning

HealthIdle == <<stores, now, observers, threads, response, config, mw>>

\* A test patches simulate_route_response, or the patch is taken away.
Patch(mock) ==
    /\ health' = [health EXCEPT !.patched = TRUE, !.mock = mock]
    /\ UNCHANGED HealthIdle

Unpatch ==
    /\ health.patched
    /\ health' = [health EXCEPT !.patched = FALSE, !.mock = Unpatched]
    /\ UNCHANGED HealthIdle

CheckEssentialRoutes ==
    /\ health' = [health EXCEPT !.result =
            [op |-> "check_essential_routes",
             ret |-> check_essential_routes.ret,
             raised |-> check_essential_routes.raised]]
    /\ UNCHANGED HealthIdle

CheckHealth ==
    /\ health' = [health EXCEPT !.result =
            [op |-> "check_health", ret |-> check_health.ret,
             raised |-> check_health.raised]]
    /\ UNCHANGED HealthIdle

GetHealthStatus ==
    /\ health' = [health EXCEPT !.result =
            [op |-> "get_health_status", ret |-> get_health_status.ret,
             raised |-> get_health_status.raised]]
    /\ UNCHANGED HealthIdle

HealthNext ==
    \/ \E mock \in Mocks : Patch(mock)
    \/ Unpatch
    \/ CheckEssentialRoutes
    \/ CheckHealth
    \/ GetHealthStatus
    \/ Tick

HealthSpec == HealthInit /\ [][HealthNext]_vars

----------------------------------------------------------------------------
(* main.py *)

PyInt(n) == [type |-> "int", value |-> n]

PyBool(b) == [type |-> "bool", value |-> b]

\* The truth value Python gives to v (in `v or default`).
Truthy(v) ==
    CASE v.type = "NoneType" -> FALSE
      [] v.type = "str" -> v.text # ""
      [] v.type = "int" -> v.value # 0
      [] v.type = "bool" -> v.value

\* a or b
Or(a, b) == IF Truthy(a) THEN a ELSE b

\* str(v) of a bool or of a str
StrOf(v) ==
    CASE v.type = "bool" -> PyStr(IF v.value THEN "True" ELSE "False")
      [] v.type = "str" -> v

\* v.lower(), on the texts of the model
lower(v) ==
    CASE v.text \in {"TRUE", "True", "true"} -> PyStr("true")
      [] v.text \in {"False", "false"} -> PyStr("false")
      [] OTHER -> v

\* The texts that int() reads as a number, with the numbers.
Numerals == [text \in {"0", "8080"} |-> IF text = "0" THEN 0 ELSE 8080]

\* int(v): v itself for an int, the number a text spells, or ValueError
int(v) ==
    IF v.type = "int" THEN [ret |-> v, raised |-> ""]
    ELSE IF v.text \in DOMAIN Numerals
         THEN [ret |-> PyInt(Numerals[v.text]), raised |-> ""]
         ELSE [ret |-> PyNone, raised |-> "ValueError"]

\* line 69, the port when neither APP_PORT nor -p gives one
DefaultPort == 8000

\* The environment: each of the four variables unset (None) or a text.
Environments ==
    [APP_HOST : {PyNone, PyStr("192.168.1.1")},
     APP_PORT : {PyNone, PyStr("8080"), PyStr("0"), PyStr("eighty")},
     APP_RELOAD : {PyNone, PyStr("true"), PyStr("false"), PyStr("TRUE")},
     APP_DEBUG : {PyNone, PyStr("true"), PyStr("false"), PyStr("TRUE")}]

\* The command line as click hands it to main (lines 36-63): -h and -p
\* default to None, -p is an int, -r and -d are flags.
CommandLines ==
    [host : {PyNone, PyStr("127.0.0.1"), PyStr("")},
     port : {PyNone, PyInt(9000), PyInt(0)},
     reload : {PyBool(FALSE), PyBool(TRUE)},
     debug : {PyBool(FALSE), PyBool(TRUE)}]

\* os.getenv(key, default)
getenv(key, default) ==
    IF config.env[key] = PyNone THEN default ELSE config.env[key]

MainInit ==
    /\ AtRest
    /\ health = NotRunning
    /\ mw = NotRunning
    /\ \E env \in Environments, cli \in CommandLines :
            config = [pc |-> "main", env |-> env, cli |-> cli]

\* lines 64-89
main ==
    /\ config.pc = "main"
    /\ LET host == getenv("APP_HOST", Or(config.cli.host, PyStr("0.0.0.0")))
           port == int(getenv("APP_PORT",
                              Or(config.cli.port, PyInt(DefaultPort))))
           reload == lower(getenv("APP_RELOAD",
                        StrOf(Or(config.cli.reload, PyStr("false")))))
                     = PyStr("true")
           debug == lower(getenv("APP_DEBUG",
                        StrOf(Or(config.cli.debug, PyStr("false")))))
                    = PyStr("true")
       IN  config' =
            IF port.raised # ""
            THEN [pc |-> "raised", env |-> config.env, cli |-> config.cli,
                  raised |-> port.raised, line |-> 69]
            ELSE [pc |-> "uvicorn.run", env |-> config.env,
                  cli |-> config.cli,
                  configure_logging |-> [debug |-> debug],
                  host |-> host, port |-> port.ret,
                  reload |-> PyBool(reload),
                  log_level |-> IF debug THEN "debug" ELSE "info"]
    /\ UNCHANGED <<stores, now, observers, threads, response, health, mw>>

MainNext == main

MainSpec == MainInit /\ [][MainNext]_vars

----------------------------------------------------------------------------
(* logging.py, log_requests_middleware: one step per await and per log *)

\* What `await request.body()` gives: no bytes, bytes that are UTF-8, bytes
\* that are not, or an exception.
Bodies ==
    {[bytes |-> "", utf8 |-> TRUE, raised |-> ""],
     [bytes |-> "{\"key\": \"value\"}", utf8 |-> TRUE, raised |-> ""],
     [bytes |-> "\\xff", utf8 |-> FALSE, raised |-> ""],
     [bytes |-> "", utf8 |-> TRUE, raised |-> "Exception"]}

Requests == [method : {"GET", "POST"}, body : Bodies]

\* What `await call_next(request)` gives: the response of the next handler,
\* or the exception it raised.
Handlers ==
    {[response |-> [status_code |-> 200, content |-> "body"], raised |-> ""],
     [response |-> [status_code |-> 404, content |-> "detail"],
      raised |-> ""],
     [response |-> [status_code |-> 500, content |-> "detail"],
      raised |-> ""],
     [response |-> PyNone, raised |-> "Exception"]}

MwIdle == [pc |-> "idle", calls |-> 0, log |-> <<>>]

LogInit ==
    /\ AtRest
    /\ health = NotRunning
    /\ config = NotRunning
    /\ mw = MwIdle

LogIdle == <<stores, now, observers, threads, response, health, config>>

\* A request reaches the middleware; `handler` is what is behind call_next.
Receive(request, handler) ==
    /\ mw.pc \in {"idle", "done", "raised"}
    /\ mw' = [pc |-> "67", request |-> request, handler |-> handler,
              calls |-> 0, log |-> <<>>]
    /\ UNCHANGED LogIdle

\* line 67: logger.info("Incoming request: %s %s", ...)
Mw67 ==
    /\ mw.pc = "67"
    /\ mw' = [mw EXCEPT !.pc = "71",
                        !.log = Append(@, [level |-> "info",
                                           msg |-> "Incoming request"])]
    /\ UNCHANGED LogIdle

\* line 71: body = await request.body()
Mw71 ==
    /\ mw.pc = "71"
    /\ mw' = IF mw.request.body.raised # ""
             THEN [mw EXCEPT !.pc = "75"]
             ELSE [mw EXCEPT !.pc = "72"]
    /\ UNCHANGED LogIdle

\* lines 72-73: if body: logger.debug("Request body: %s",
\* body.decode("utf-8")); the decode raises UnicodeDecodeError on bytes that
\* are not UTF-8
Mw72 ==
    /\ mw.pc = "72"
    /\ mw' = IF mw.request.body.bytes = ""
             THEN [mw EXCEPT !.pc = "78"]
             ELSE IF ~mw.request.body.utf8
                  THEN [mw EXCEPT !.pc = "75"]
                  ELSE [mw EXCEPT !.pc = "78",
                            !.log = Append(@, [level |-> "debug",
                                               msg |-> "Request body"])]
    /\ UNCHANGED LogIdle

\* (variant of Mw75: the exception is logged and raised again)
Mw75_reraise ==
    /\ mw.pc = "75"
    /\ mw' = [mw EXCEPT !.pc = "raised",
                        !.log = Append(@, [level |-> "warning",
                                    msg |-> "Could not read request body"])]
    /\ UNCHANGED LogIdle

\* lines 74-75: except Exception: logger.warning("Could not read request
\* body: %s", e)
Mw75 ==
    /\ mw.pc = "75"
    /\ mw' = [mw EXCEPT !.pc = "78",
                        !.log = Append(@, [level |-> "warning",
                                    msg |-> "Could not read request body"])]
    /\ UNCHANGED LogIdle

\* line 78: response = await call_next(request)
Mw78 ==
    /\ mw.pc = "78"
    /\ mw' = IF mw.handler.raised # ""
             THEN [mw EXCEPT !.pc = "raised", !.calls = @ + 1]
             ELSE [pc |-> "81", request |-> mw.request,
                   handler |-> mw.handler, calls |-> mw.calls + 1,
                   log |-> mw.log, response |-> mw.handler.response]
    /\ UNCHANGED LogIdle

\* lines 81-83: logger.info("Response status: %d", response.status_code);
\* return response
Mw81 ==
    /\ mw.pc = "81"
    /\ mw' = [pc |-> "done", request |-> mw.request, handler |-> mw.handler,
              calls |-> mw.calls,
              log |-> Append(mw.log, [level |-> "info",
                                      msg |-> "Response status"]),
              ret |-> mw.response]
    /\ UNCHANGED LogIdle

LogNext ==
    \/ \E request \in Requests, handler \in Handlers :
            Receive(request, handler)
    \/ Mw67
    \/ Mw71
    \/ Mw72
    \/ Mw75
    \/ Mw78
    \/ Mw81

LogSpec == LogInit /\ [][LogNext]_vars

----------------------------------------------------------------------------
\* C1: a Resolve of an id that is in the store with now > expiresAt returns
\* absent, leaves no counter behind (the id is removed from all three maps),
\* and a ClickCount of that id right after it returns 0.
C1_ExpiredResolvePurges ==
    [][ /\ \A id \in ShortIds :
            ( /\ Returned("get_original_url")
              /\ call'.short_id = id
              /\ InStore(id)
              /\ now > GetItem(expiration_store, id) )
            => ( /\ call'.ret = PyNone
                 /\ call'.raised = ""
                 /\ Absent(id)' )
        /\ ( /\ call.op = "get_original_url"
             /\ call.line = 79
             /\ Returned("get_click_count")
             /\ call'.short_id = call.short_id )
           => call'.ret = 0
      ]_vars

\* C1 witness: a ClickCount that follows the purge of its id has returned.
C1_Witness ==
    /\ call.op = "get_click_count"
    /\ call.short_id \in purged
    /\ Absent(call.short_id)
    /\ call.ret = 0

----------------------------------------------------------------------------
\* C2 as claimed: an entry created at time c with ttl t has expiresAt = c + t;
\* a Resolve of it strictly before c + t returns the target, and a Resolve at
\* or after c + t (exactly at c + t included) returns absent and purges it.
C2_ExpiryBoundaryExclusive ==
    [][ /\ ( Returned("shorten_url") /\ call'.line = 52 )
           => GetItem(expiration_store', call'.ret) = now + call'.ttl
        /\ \A id \in ShortIds :
            ( Returned("get_original_url") /\ call'.short_id = id
              /\ InStore(id) )
            => IF now < GetItem(expiration_store, id)
               THEN call'.ret = GetItem(url_store, id) /\ InStore(id)'
               ELSE call'.ret = PyNone /\ Absent(id)'
      ]_vars

\* C2 amended: an entry created at time c with ttl t is stored with
\* expiresAt = c + t, which no other call changes while the entry is stored;
\* a Resolve of it at any instant up to and including c + t returns the
\* target, and the first Resolve strictly after c + t returns absent and
\* purges it.
C2_ExpiryBoundary ==
    [][ /\ ( Returned("shorten_url") /\ call'.line = 52 )
           => GetItem(expiration_store', call'.ret) = now + call'.ttl
        /\ \A id \in ShortIds :
            /\ ( Returned("get_original_url") /\ call'.short_id = id
                 /\ InStore(id) )
               => IF now <= GetItem(expiration_store, id)
                  THEN call'.ret = GetItem(url_store, id) /\ InStore(id)'
                  ELSE call'.ret = PyNone /\ Absent(id)'
            /\ ( /\ id \in Keys(expiration_store)
                 /\ id \in Keys(expiration_store')
                 /\ GetItem(expiration_store', id)
                        # GetItem(expiration_store, id) )
               => ( Returned("shorten_url") /\ call'.line = 52
                    /\ call'.ret = id )
      ]_vars

\* C2 witness: a Resolve made exactly at the expiration time, after time
\* has passed, returned the target.
C2_Witness ==
    /\ call.op = "get_original_url"
    /\ call.line = 87
    /\ call.at > 0
    /\ call.at = GetItem(expiration_store, call.short_id)
    /\ call.ret = GetItem(url_store, call.short_id)

----------------------------------------------------------------------------
\* C3: n >= 1 Resolve calls on one live entry with no other call in between
\* each return the target, and leave ClickCount n above what it was before
\* them.
C3_ClickAccounting ==
    run.n >= 1 =>
        /\ call.op = "get_original_url"
        /\ call.short_id = run.short_id
        /\ call.ret = GetItem(url_store, run.short_id)
        /\ Get(click_count_store, run.short_id, 0) = run.base + run.n

\* C3 witness: two or more Resolve calls in a row on one live entry.
C3_Witness == run.n >= 2 /\ InStore(run.short_id)

----------------------------------------------------------------------------
\* C4 as claimed (for a URL string and a positive ttl, as the default 3600
\* is): a Resolve of the id Create(T) returned, with no time passing and no
\* other call in between, returns T.
C4_RoundTrip ==
    [][ ( /\ call.op = "shorten_url"
          /\ call.url.type = "str"
          /\ call.ttl > 0
          /\ call.at = now
          /\ Returned("get_original_url")
          /\ call'.short_id = call.ret )
        => call'.ret = call.url
      ]_vars

----------------------------------------------------------------------------
\* C5 as claimed: two Create(T) calls in a row, the entry of the first not
\* expired, return the same id.
C5_IdempotentDedup ==
    [][ ( /\ call.op = "shorten_url"
          /\ Returned("shorten_url")
          /\ call'.url = call.url
          /\ LiveEntry(call.ret) )
        => call'.ret = call.ret
      ]_vars

----------------------------------------------------------------------------
\* C6: for an id that is in none of the maps, Resolve returns absent and
\* ClickCount returns 0, and neither changes any of the three maps.
C6_AbsenceStability ==
    [][ \A id \in ShortIds : Absent(id) =>
            /\ ( Returned("get_original_url") /\ call'.short_id = id )
               => ( call'.ret = PyNone /\ call'.raised = ""
                    /\ stores' = stores )
            /\ ( Returned("get_click_count") /\ call'.short_id = id )
               => ( call'.ret = 0 /\ call'.raised = ""
                    /\ stores' = stores )
      ]_vars

\* C6 witness: a Resolve of an absent id has returned, next to another entry.
C6_Witness ==
    /\ call.op = "get_original_url"
    /\ call.line = 71
    /\ Absent(call.short_id)
    /\ url_store # <<>>

----------------------------------------------------------------------------
\* C7 as claimed: when the threads have all returned and the entry of id is
\* still live (so it was live during every call), every call on id has
\* returned the target and the counter, 0 before the calls, equals the number
\* of those calls.
C7_NoLostClicks ==
    \A id \in ShortIds :
        ( (\A t \in Threads : pc[t] \in {"idle", "done"}) /\ LiveEntry(id) )
        => LET callers == {t \in Threads :
                            pc[t] = "done" /\ frame[t].short_id = id}
           IN  /\ \A t \in callers :
                    /\ frame[t].line = 87
                    /\ frame[t].ret = GetItem(url_store, id)
               /\ GetItem(click_count_store, id) = Cardinality(callers)

----------------------------------------------------------------------------
\* C8 as claimed: the id a Create inserts is not the key of a live entry, and
\* a Create leaves every live entry other than the one it returns as it was.
C8_IdUniqueness ==
    [][ Returned("shorten_url") =>
            /\ call'.line = 52 => ~LiveEntry(call'.ret)
            /\ \A id \in ShortIds :
                ( LiveEntry(id)
                  /\ ~PyEq(GetItem(url_store, id), str(call'.url)) )
                => /\ InStore(id)'
                   /\ GetItem(url_store', id) = GetItem(url_store, id)
                   /\ GetItem(expiration_store', id)
                        = GetItem(expiration_store, id)
                   /\ GetItem(click_count_store', id)
                        = GetItem(click_count_store, id)
      ]_vars

----------------------------------------------------------------------------
\* C9 as claimed: the counter of an id that stays in the store never goes
\* down, and changes only in a Resolve of that id that finds the entry
\* unexpired and returns its target.
C9_ClicksMonotone ==
    [][ \A id \in ShortIds :
            ( id \in Keys(click_count_store)
              /\ id \in Keys(click_count_store') )
            => /\ GetItem(click_count_store', id)
                    >= GetItem(click_count_store, id)
               /\ GetItem(click_count_store', id)
                    # GetItem(click_count_store, id)
                  => ( /\ Returned("get_original_url")
                       /\ call'.short_id = id
                       /\ LiveEntry(id)
                       /\ call'.ret = GetItem(url_store, id) )
      ]_vars

----------------------------------------------------------------------------
\* C10 as claimed: an id that a Resolve has purged is absent in every later
\* state.
C10_PurgedIsTerminal == \A id \in purged : Absent(id)

\* C10 amended: an id that a Resolve has purged stays absent, Resolve of it
\* returning absent and ClickCount of it 0, until a Create generates that id
\* for a new entry; no other step brings it back.
C10_PurgedUntilCreated ==
    [][ \A id \in purged : Absent(id) =>
            /\ ( Returned("get_original_url") /\ call'.short_id = id )
               => call'.ret = PyNone
            /\ ( Returned("get_click_count") /\ call'.short_id = id )
               => call'.ret = 0
            /\ \/ Absent(id)'
               \/ ( Returned("shorten_url") /\ call'.line = 52
                    /\ call'.ret = id )
      ]_vars

\* C10 witness: a purged id is still absent after a later Create of another
\* entry and a Resolve of the purged id.
C10_Witness ==
    /\ call.op = "get_original_url"
    /\ call.line = 71
    /\ call.short_id \in purged
    /\ Absent(call.short_id)
    /\ url_store # <<>>

----------------------------------------------------------------------------
\* C11: called one after another, shorten_url, get_original_url and
\* get_click_count never raise, whatever the target and whatever the id
\* (known, unknown, live or expired): shorten_url returns an id,
\* get_click_count a number, and the only failure there is is
\* get_original_url returning None.
C11_Totality ==
    call.op \in {"shorten_url", "get_original_url", "get_click_count"}
    => /\ call.raised = ""
       /\ call.op = "shorten_url" => call.ret \in ShortIds
       /\ call.op = "get_click_count" => call.ret \in Nat
       /\ call.op = "get_original_url"
          => call.ret = PyNone \/ call.ret.type = "str"

\* get_original_url has just purged an expired id, after time has passed, and
\* returned None without raising.
C11_Witness ==
    /\ call.op = "get_original_url"
    /\ call.line = 79
    /\ call.raised = ""
    /\ call.ret = PyNone
    /\ now > 0
    /\ Absent(call.short_id)

----------------------------------------------------------------------------
\* C12: get_click_count(id) changes none of the three maps and does not look
\* at the expiration time: for an id in the store it returns the stored
\* counter, also when the expiration time has passed and no get_original_url
\* has purged the entry yet.
C12_ClickCountReadsOnly ==
    [][ \A id \in ShortIds :
            (Returned("get_click_count") /\ call'.short_id = id)
            => /\ stores' = stores
               /\ call'.raised = ""
               /\ InStore(id) => call'.ret = GetItem(click_count_store, id)
      ]_vars

\* get_click_count has returned a counter of at least 1 for an entry whose
\* expiration time had passed, and the entry is still in the store.
C12_Witness ==
    /\ call.op = "get_click_count"
    /\ call.at = now
    /\ InStore(call.short_id)
    /\ now > GetItem(expiration_store, call.short_id)
    /\ call.ret >= 1
    /\ call.ret = GetItem(click_count_store, call.short_id)

----------------------------------------------------------------------------
\* C13, as stated: after shorten_url(T, ttl) returns id, id is a key of the
\* three maps and url_store sends id to T itself; when no entry had target T
\* before, the entry of id has expiration time now + ttl and 0 clicks.
C13_CreateStoresTarget ==
    [][ Returned("shorten_url")
        => /\ call'.ret \in Keys(url_store')
           /\ call'.ret \in Keys(expiration_store')
           /\ call'.ret \in Keys(click_count_store')
           /\ GetItem(url_store', call'.ret) = call'.url
           /\ (\A i \in DOMAIN url_store : url_store[i].value # call'.url)
              => /\ GetItem(expiration_store', call'.ret) = now + call'.ttl
                 /\ GetItem(click_count_store', call'.ret) = 0
      ]_vars

\* C13, amended: url_store sends id to str(T), the string form of the
\* target (T itself when T is a string); when no entry stored str(T) before,
\* the entry of id has expiration time now + ttl and 0 clicks.
C13_CreateStoresString ==
    [][ Returned("shorten_url")
        => /\ call'.ret \in Keys(url_store')
           /\ call'.ret \in Keys(expiration_store')
           /\ call'.ret \in Keys(click_count_store')
           /\ GetItem(url_store', call'.ret) = PyStr(call'.url.text)
           /\ (\A i \in DOMAIN url_store :
                    url_store[i].value # PyStr(call'.url.text))
              => /\ GetItem(expiration_store', call'.ret) = now + call'.ttl
                 /\ GetItem(click_count_store', call'.ret) = 0
      ]_vars

\* shorten_url has just stored the string of an HttpUrl under a new id,
\* after time has passed, with a ttl other than 0.
C13_Witness ==
    /\ call.op = "shorten_url"
    /\ call.line = 52
    /\ call.at = now
    /\ now > 0
    /\ call.ttl # 0
    /\ call.url.type = "HttpUrl"
    /\ InStore(call.ret)
    /\ GetItem(url_store, call.ret) = PyStr(call.url.text)
    /\ GetItem(expiration_store, call.ret) = now + call.ttl

----------------------------------------------------------------------------
\* C14: an id leaves a map only in a get_original_url(id) that finds the
\* expiration time of id passed (and returns None); shorten_url,
\* get_click_count, validate_short_id and the passing of time remove no id
\* from any of the three maps.
C14_LazyExpiration ==
    [][ \A id \in ShortIds :
            ( \/ id \in Keys(url_store) /\ id \notin Keys(url_store')
              \/ id \in Keys(expiration_store)
                    /\ id \notin Keys(expiration_store')
              \/ id \in Keys(click_count_store)
                    /\ id \notin Keys(click_count_store') )
            => /\ Returned("get_original_url")
               /\ call'.short_id = id
               /\ call'.ret = PyNone
               /\ id \in Keys(expiration_store)
               /\ now > GetItem(expiration_store, id)
      ]_vars

\* An entry whose expiration time passed is still in all three maps after
\* a presence check of its id, with its clicks.
C14_Witness ==
    /\ call.op = "validate_short_id"
    /\ call.raised = ""
    /\ call.at = now
    /\ InStore(call.short_id)
    /\ now > GetItem(expiration_store, call.short_id)
    /\ GetItem(click_count_store, call.short_id) >= 1

----------------------------------------------------------------------------
\* C16: the entry a shorten_url inserts has an expiration time strictly
\* greater than the time of its creation, whatever the ttl.
C16_ExpiryAfterCreation ==
    [][ (Returned("shorten_url") /\ call'.line = 52)
        => GetItem(expiration_store', call'.ret) > now
      ]_vars

----------------------------------------------------------------------------
\* C15: with shorten_url and get_original_url run by concurrent threads, no
\* get_original_url that is about to read the maps for its id finds the id
\* in some of the three maps and missing from the others, and every
\* get_original_url that has returned the target has counted its click.
C15_AtomicWrites ==
    \A t \in Threads :
        /\ pc[t] \in {"69a", "69b", "74", "82", "83load", "86", "87"}
           => InStore(frame[t].short_id) \/ Absent(frame[t].short_id)
        /\ (pc[t] = "done" /\ frame[t].line = 87 /\ frame[t].raised = "")
           => frame[t].counted

----------------------------------------------------------------------------
\* C17: for an id that is not a key of url_store the redirect, analytics
\* and QR handlers answer 404 'Short ID not found', call neither
\* get_original_url nor get_click_count and leave the three maps as they
\* are. The presence check looks at url_store only: an id that is a key of
\* url_store is not answered 404, expired or not, and the check changes
\* nothing (the analytics handler, which calls only get_click_count after
\* it, leaves the three maps as they are).
C17_UnknownIdIs404 ==
    [][ \A id \in ShortIds :
        \A h \in {"redirect_url_handler", "analytics_handler",
                  "generate_qr_code_handler"} :
            (Handled(h) /\ response'.short_id = id)
            => /\ id \notin Keys(url_store)
                  => /\ response'.status = 404
                     /\ response'.detail = "Short ID not found"
                     /\ response'.calls = <<>>
                     /\ call' = call
                     /\ stores' = stores
               /\ id \in Keys(url_store)
                  => /\ response'.status # 404
                     /\ Len(response'.calls) = 1
               /\ h = "analytics_handler" => stores' = stores
      ]_vars

\* The QR handler has answered 404 for an id that an earlier request purged
\* (its get_original_url found it expired), with another entry still stored.
C17_Witness ==
    /\ response.handler = "generate_qr_code_handler"
    /\ response.status = 404
    /\ response.calls = <<>>
    /\ Absent(response.short_id)
    /\ call.op = "get_original_url"
    /\ call.short_id = response.short_id
    /\ call.line = 79
    /\ url_store # <<>>

----------------------------------------------------------------------------
\* C18: check_essential_routes returns 'up' exactly when the simulated
\* response of /shorten and of /health are both healthy, and 'down' when one
\* of them is unhealthy or the simulation raises; it never raises.
\* check_health and get_health_status report 'healthy' exactly when the
\* routes are 'up', and 'unhealthy' otherwise.
C18_HealthFollowsRoutes ==
    [][ (now' = now /\ health'.patched = health.patched
         /\ health'.mock = health.mock /\ health'.result.op # "none")
        => LET result == health'.result
               healthy == \A route \in {"/shorten", "/health"} :
                               Simulated(route) = "True"
           IN  /\ result.raised = ""
               /\ result.op = "check_essential_routes"
                  => result.ret = IF healthy THEN "up" ELSE "down"
               /\ result.op = "check_health"
                  => /\ result.ret.components.routes
                            = IF healthy THEN "up" ELSE "down"
                     /\ result.ret.status
                            = IF healthy THEN "healthy" ELSE "unhealthy"
               /\ result.op = "get_health_status"
                  => result.ret = IF healthy THEN "healthy" ELSE "unhealthy"
      ]_vars

\* check_essential_routes has returned 'down' with /shorten healthy and the
\* simulation of /health raising.
C18_Witness ==
    /\ health.result.op = "check_essential_routes"
    /\ health.result.ret = "down"
    /\ health.result.raised = ""
    /\ health.patched
    /\ health.mock["/shorten"] = "True"
    /\ health.mock["/health"] = "Exception"

----------------------------------------------------------------------------
\* C19: what main passes to uvicorn.run is, for each of host, port and
\* reload, the environment variable when it is set, else the command line
\* option when it is given (whatever its value), else the default (0.0.0.0,
\* 8000, false); debug resolves the same way and the log level is 'debug'
\* exactly when it resolves to true.
C19_ConfigPrecedence ==
    config.pc = "uvicorn.run"
    => LET env == config.env
           cli == config.cli
           debug == IF env.APP_DEBUG # PyNone
                    THEN env.APP_DEBUG.text \in {"true", "TRUE"}
                    ELSE cli.debug.value
       IN  /\ config.host = IF env.APP_HOST # PyNone THEN env.APP_HOST
                            ELSE IF cli.host # PyNone THEN cli.host
                            ELSE PyStr("0.0.0.0")
           /\ config.port = IF env.APP_PORT # PyNone
                            THEN PyInt(Numerals[env.APP_PORT.text])
                            ELSE IF cli.port # PyNone THEN cli.port
                            ELSE PyInt(8000)
           /\ config.reload = IF env.APP_RELOAD # PyNone
                              THEN PyBool(env.APP_RELOAD.text
                                            \in {"true", "TRUE"})
                              ELSE cli.reload
           /\ config.log_level = IF debug THEN "debug" ELSE "info"

----------------------------------------------------------------------------
\* C20: the middleware calls the next handler at most once while it runs
\* and exactly once by the time it ends; when it returns, it returns the
\* response of that handler as it is, and a request body whose reading
\* failed has been logged as a warning; it ends without returning only
\* when the next handler raised.
C20_MiddlewarePassesThrough ==
    /\ mw.calls <= 1
    /\ mw.pc = "done"
       => /\ mw.calls = 1
          /\ mw.handler.raised = ""
          /\ mw.ret = mw.handler.response
          /\ mw.request.body.raised # ""
             => \E i \in DOMAIN mw.log : mw.log[i].level = "warning"
    /\ mw.pc = "raised"
       => /\ mw.calls = 1
          /\ mw.handler.raised # ""

\* The middleware has returned the 404 of the next handler, called once,
\* for a request whose body could not be read, after a warning.
C20_Witness ==
    /\ mw.pc = "done"
    /\ mw.request.body.raised = "Exception"
    /\ mw.calls = 1
    /\ mw.ret = [status_code |-> 404, content |-> "detail"]
    /\ \E i \in DOMAIN mw.log : mw.log[i].level = "warning"

----------------------------------------------------------------------------
\* C21: a shorten_url(T, ttl) called when url_store already holds the
\* string of T, under a live entry or under an expired one that is not yet
\* purged, returns the id of such an entry and leaves the three maps as
\* they are.
C21_DedupLeavesStore ==
    [][ ( /\ Returned("shorten_url")
          /\ \E i \in DOMAIN url_store :
                url_store[i].value = PyStr(call'.url.text) )
        => /\ \E i \in DOMAIN url_store :
                /\ url_store[i].value = PyStr(call'.url.text)
                /\ url_store[i].key = call'.ret
           /\ stores' = stores
      ]_vars

----------------------------------------------------------------------------
\* C23: url_store, expiration_store and click_count_store have the same
\* keys in every state that calls made one after another reach.
C23_SameKeys ==
    /\ Keys(url_store) = Keys(expiration_store)
    /\ Keys(url_store) = Keys(click_count_store)

\* Two entries are stored after a get_original_url has purged an id, and
\* the three maps hold the same two keys.
C23_Witness ==
    /\ purged # {}
    /\ Len(url_store) = 2
    /\ Keys(url_store) = ShortIds
    /\ Keys(expiration_store) = ShortIds
    /\ Keys(click_count_store) = ShortIds

----------------------------------------------------------------------------
\* C24: no two ids of url_store hold the same target.
C24_TargetsInjective ==
    \A i, j \in DOMAIN url_store :
        url_store[i].value = url_store[j].value => i = j

----------------------------------------------------------------------------
\* C22: a redirect request is answered 404, or 200 with the target stored
\* under its id; it has no other outcome, also when the entry of the id is
\* expired and not yet purged as the request arrives.
C22_RedirectFoundOrNotFound ==
    [][ \A id \in ShortIds :
            (Handled("redirect_url_handler") /\ response'.short_id = id)
            => \/ response'.status = 404
               \/ /\ response'.status = 200
                  /\ id \in Keys(url_store)
                  /\ response'.body = GetItem(url_store, id)
      ]_vars

----------------------------------------------------------------------------
\* C25: when two threads have run shorten_url(T) for one string T that the
\* store did not hold before them, neither has raised, both have returned
\* the same id and url_store holds T exactly once.
C25_ConcurrentCreateDedups ==
    \A t1, t2 \in Threads :
        ( /\ t1 # t2
          /\ pc[t1] = "done" /\ pc[t2] = "done"
          /\ frame[t1].url.type = "str"
          /\ frame[t2].url = frame[t1].url
          /\ frame[t1].url # PyStr(call.url.text) )
        => /\ frame[t1].raised = "" /\ frame[t2].raised = ""
           /\ frame[t1].ret = frame[t2].ret
           /\ Cardinality({i \in DOMAIN url_store :
                                url_store[i].value = frame[t1].url}) = 1

----------------------------------------------------------------------------
\* C26: every thread that has run get_original_url on the entry the store
\* started with, expired from the start (ttl < 0), has returned None and
\* has not raised.
C26_ConcurrentPurge ==
    \A t \in Threads :
        ( /\ pc[t] = "done"
          /\ call.ttl < 0
          /\ frame[t].url = PyNone
          /\ frame[t].short_id = call.ret )
        => /\ frame[t].raised = ""
           /\ frame[t].ret = PyNone

----------------------------------------------------------------------------
\* C27: a QR request for a live id, like a redirect request, calls
\* get_original_url and raises the click count of that id by exactly 1; an
\* analytics request for an id in the store answers the count as it is and
\* leaves it unchanged.
C27_QrCountsAClick ==
    [][ \A id \in ShortIds :
        /\ \A h \in {"redirect_url_handler", "generate_qr_code_handler"} :
            (Handled(h) /\ response'.short_id = id /\ LiveEntry(id))
            => /\ response'.status = 200
               /\ response'.calls = <<"get_original_url">>
               /\ GetItem(click_count_store', id)
                    = GetItem(click_count_store, id) + 1
        /\ ( Handled("analytics_handler") /\ response'.short_id = id
             /\ InStore(id) )
            => /\ response'.status = 200
               /\ response'.body.click_count = GetItem(click_count_store, id)
               /\ click_count_store' = click_count_store
      ]_vars

\* A QR request has been answered with the image of the target of a live
\* id whose count, 1 before it, is now 2.
C27_Witness ==
    /\ response.handler = "generate_qr_code_handler"
    /\ response.status = 200
    /\ call.op = "get_original_url"
    /\ call.short_id = response.short_id
    /\ call.at = now
    /\ LiveEntry(response.short_id)
    /\ response.body = GetItem(url_store, response.short_id).text
    /\ GetItem(click_count_store, response.short_id) = 2

====
